---- MODULE Spec2Model ----
(***************************************************************************)
(* Stock ledger of the Alumasa warehouse application: the item list held   *)
(* by App, the entry and exit forms (NewEntry, NewExit) that change it     *)
(* after a simulated 1500 ms API delay, the catalog dialog of StockList    *)
(* and the physical inventory count (Inventory); the session held by App   *)
(* (login, logout, password change, audit log) and the backup restore.     *)
(*                                                                         *)
(* Text is a sequence of one-character strings, so that trim, toLowerCase  *)
(* and parseFloat are computed.  Money (avgUnitValue, totalValue) is in    *)
(* cents; quantities are whole numbers.                                    *)
(***************************************************************************)
EXTENDS Integers, Sequences, FiniteSets, TLC

VARIABLES
  items,               \* App: items (Item[])
  entryExitHistory,    \* App: entryExitHistory (EntryExitRecord[])
  currentPage,         \* App: currentPage
  pending,             \* continuations of handleSubmit waiting on the 1500 ms timer; exact
                       \* tells that an exit's quantity is the whole stock of the
                       \* selectedItem its closure captured
  exitItemId,          \* NewExit: itemId ("" when nothing is selected)
  exitLoading,         \* NewExit: isLoading
  exitStatus,          \* NewExit: status ("none", "error", "success")
  entryLoading,        \* NewEntry: isLoading
  entryStatus,         \* NewEntry: status
  itemToEdit,          \* StockList: itemToEdit (Null when the dialog is closed)
  countedQuantities,   \* Inventory: countedQuantities (item id -> raw text)
  isConfirmModalOpen,  \* Inventory: isConfirmModalOpen
  clock,               \* Date.now() as seen by handleSaveItem
  last,                \* when handleSaveInventory was the last handler to run: the ids it
                       \* saw in countedQuantities, those counted with a number, and
                       \* those of the divergence list; when another handler has just
                       \* shown a toast, the kind of that toast
  users,               \* App: users (User[])
  authenticatedUser,   \* App: authenticatedUser (a copy of a user, Null when logged out)
  changePasswordUser,  \* App: changePasswordUser (Null when the dialog is closed)
  auditLogs,           \* App: auditLogs, newest first
  filterCategory,      \* Inventory, StockList: filterCategory of the mounted page
                       \* (empty for all categories)
  stockPage,           \* StockList: currentPage (the page number of the table)
  itemToDelete,        \* StockList: itemToDelete (Null when the dialog is closed)
  selectedFile,        \* BackupRestore: selectedFile, as the text it holds (Null for none)
  exitSearchTerm,      \* NewExit: searchTerm
  exitItemError,       \* NewExit: itemError is not null
  exitPreFilled,       \* NewExit: isPreFilled (the form was opened for an item)
  currentUser,         \* UserManagement: currentUser (Null when the dialog is closed)
  blurTimers           \* the 200 ms timers of handleSearchBlur, each with the itemId
                       \* and searchTerm its closure captured

vars == <<items, entryExitHistory, currentPage, pending, exitItemId, exitLoading,
          exitStatus, entryLoading, entryStatus, itemToEdit, countedQuantities,
          isConfirmModalOpen, clock, last, users, authenticatedUser,
          changePasswordUser, auditLogs, filterCategory, itemToDelete, selectedFile,
          exitSearchTerm, exitItemError, exitPreFilled, blurTimers, currentUser,
          stockPage>>

\* the search field of NewExit
exitFormVars == <<exitSearchTerm, exitItemError, exitPreFilled, blurTimers>>

\* App's session state
sessionVars == <<users, authenticatedUser, changePasswordUser, auditLogs>>

\* state of the components added to the ledger's
pageVars == <<filterCategory, itemToDelete, selectedFile>>

-----------------------------------------------------------------------------
(* Bounds of the model *)

\* audit entries written in one run
MaxLogs == 3
\* an entry is submitted only while it keeps the item's stock within MaxStock
MaxStock == 50

\* and the stock of PAR-001, which starts at 1500, within MaxScenarioStock
MaxScenarioStock == 1700

StockCap(id) == IF id = "1" THEN MaxScenarioStock ELSE MaxStock
\* continuations waiting on their timer at a time
MaxPending == 2
\* items created in one run
MaxCreates == 1
\* timers of handleSearchBlur waiting at a time
MaxBlurs == 2
\* users in the list at a time
MaxUsers == 3
\* the page numbers the "Proxima" button of the stock list is followed to
MaxPage == 3

-----------------------------------------------------------------------------
(* Text *)

Null == [null |-> TRUE]

Upper == <<"A","B","C","D","E","F","G","H","I","J","K","L","M",
           "N","O","P","Q","R","S","T","U","V","W","X","Y","Z">>
Lower == <<"a","b","c","d","e","f","g","h","i","j","k","l","m",
           "n","o","p","q","r","s","t","u","v","w","x","y","z">>
Digits == <<"0","1","2","3","4","5","6","7","8","9">>

\* String.prototype.toLowerCase, one character
LowerChar(c) ==
  IF \E k \in 1..Len(Upper) : Upper[k] = c
    THEN Lower[CHOOSE k \in 1..Len(Upper) : Upper[k] = c]
    ELSE c

\* String.prototype.toLowerCase
ToLowerCase(s) == [k \in 1..Len(s) |-> LowerChar(s[k])]

IsSpace(c) == c = " "

RECURSIVE TrimStart(_)
TrimStart(s) ==
  IF s # <<>> /\ IsSpace(Head(s)) THEN TrimStart(Tail(s)) ELSE s

RECURSIVE TrimEnd(_)
TrimEnd(s) ==
  IF s # <<>> /\ IsSpace(s[Len(s)]) THEN TrimEnd(SubSeq(s, 1, Len(s) - 1)) ELSE s

\* String.prototype.trim
Trim(s) == TrimEnd(TrimStart(s))

IsDigit(c) == \E k \in 1..Len(Digits) : Digits[k] = c

DigitValue(c) == (CHOOSE k \in 1..Len(Digits) : Digits[k] = c) - 1

\* the longest prefix of s made of digits
RECURSIVE DigitPrefix(_)
DigitPrefix(s) ==
  IF s # <<>> /\ IsDigit(Head(s)) THEN <<Head(s)>> \o DigitPrefix(Tail(s)) ELSE <<>>

RECURSIVE DecimalValue(_)
DecimalValue(d) ==
  IF d = <<>> THEN 0
  ELSE 10 * DecimalValue(SubSeq(d, 1, Len(d) - 1)) + DigitValue(d[Len(d)])

NaN == [nan |-> TRUE, v |-> 0]

Num(n) == [nan |-> FALSE, v |-> n]

\* parseFloat: leading white space is skipped, then an optional sign and the
\* longest run of digits are read; what follows is ignored; NaN when no digit
\* is found.  (Fractions and exponents are outside the modelled alphabet.)
ParseFloat(s) ==
  LET t == TrimStart(s)
      signed == t # <<>> /\ Head(t) \in {"-", "+"}
      u == IF signed THEN Tail(t) ELSE t
      d == DigitPrefix(u)
  IN  IF d = <<>> THEN NaN
      ELSE IF signed /\ Head(t) = "-" THEN Num(0 - DecimalValue(d))
      ELSE Num(DecimalValue(d))

-----------------------------------------------------------------------------
(* Data *)

mockItems ==
  <<
   [id |-> "1", code |-> <<"P", "A", "R", "-", "0", "0", "1">>,
    description |-> <<"P", "a", "r", "a", "f", "u", "s", "o", " ", "S", "e", "x", "t", "a", "v", "a", "d", "o", " ", "M", "8">>,
    category |-> <<"F", "i", "x", "a", "d", "o", "r", "e", "s">>,
    location |-> <<"A", "1", "-", "0", "1">>, unit |-> <<"U", "N">>,
    stockQuantity |-> 1500, minQuantity |-> 500, leadTimeDays |-> 5,
    avgUnitValue |-> 75, totalValue |-> 112500],
   [id |-> "2", code |-> <<"C", "H", "P", "-", "0", "1", "0">>,
    description |-> <<"C", "h", "a", "p", "a", " ", "d", "e", " ", "A", "c", "o", " ", "1", "/", "4", "\"">>,
    category |-> <<"M", "a", "t", "e", "r", "i", "a", "-", "p", "r", "i", "m", "a">>,
    location |-> <<"B", "2", "-", "0", "5">>, unit |-> <<"K", "G">>,
    stockQuantity |-> 450, minQuantity |-> 1000, leadTimeDays |-> 15,
    avgUnitValue |-> 850, totalValue |-> 382500],
   [id |-> "3", code |-> <<"T", "U", "B", "-", "3", "0", "4">>,
    description |-> <<"T", "u", "b", "o", " ", "I", "n", "o", "x", " ", "2", "\"">>,
    category |-> <<"M", "a", "t", "e", "r", "i", "a", "-", "p", "r", "i", "m", "a">>,
    location |-> <<"B", "2", "-", "0", "6">>, unit |-> <<"M">>,
    stockQuantity |-> 120, minQuantity |-> 50, leadTimeDays |-> 10,
    avgUnitValue |-> 4520, totalValue |-> 542400],
   [id |-> "4", code |-> <<"E", "P", "I", "-", "0", "0", "2">>,
    description |-> <<"L", "u", "v", "a", " ", "d", "e", " ", "P", "r", "o", "t", "e", "c", "a", "o">>,
    category |-> <<"E", "P", "I">>,
    location |-> <<"C", "3", "-", "1", "2">>, unit |-> <<"P", "A", "R">>,
    stockQuantity |-> 80, minQuantity |-> 100, leadTimeDays |-> 7,
    avgUnitValue |-> 1200, totalValue |-> 96000],
   [id |-> "5", code |-> <<"S", "O", "L", "-", "0", "0", "5">>,
    description |-> <<"E", "l", "e", "t", "r", "o", "d", "o", " ", "p", "a", "r", "a", " ", "S", "o", "l", "d", "a">>,
    category |-> <<"C", "o", "n", "s", "u", "m", "i", "v", "e", "i", "s">>,
    location |-> <<"A", "1", "-", "0", "2">>, unit |-> <<"K", "G">>,
    stockQuantity |-> 25, minQuantity |-> 20, leadTimeDays |-> 3,
    avgUnitValue |-> 3500, totalValue |-> 87500]
  >>

\* the movement history App starts from (dates left out)
mockEntryExitHistory ==
  <<
   [id |-> "h1",  itemId |-> "1", type |-> "entry", quantity |-> 1000],
   [id |-> "h2",  itemId |-> "2", type |-> "entry", quantity |-> 500],
   [id |-> "h3",  itemId |-> "1", type |-> "exit",  quantity |-> 200],
   [id |-> "h4",  itemId |-> "4", type |-> "exit",  quantity |-> 50],
   [id |-> "h5",  itemId |-> "3", type |-> "entry", quantity |-> 80],
   [id |-> "h6",  itemId |-> "5", type |-> "entry", quantity |-> 30],
   [id |-> "h7",  itemId |-> "2", type |-> "exit",  quantity |-> 150],
   [id |-> "h8",  itemId |-> "1", type |-> "exit",  quantity |-> 300],
   [id |-> "h9",  itemId |-> "4", type |-> "entry", quantity |-> 120],
   [id |-> "h10", itemId |-> "1", type |-> "entry", quantity |-> 500],
   [id |-> "h11", itemId |-> "3", type |-> "exit",  quantity |-> 40],
   [id |-> "h12", itemId |-> "5", type |-> "exit",  quantity |-> 10]
  >>

\* the users App starts from (profile pictures left out)
mockUsers ==
  <<
   [id |-> "1", name |-> "Admin",
    email |-> <<"a", "d", "m", "i", "n", "@", "a", "l", "u", "m", "a", "s", "a", ".", "c", "o", "m">>,
    role |-> "Admin", password |-> "admin"],
   [id |-> "2", name |-> "Operador",
    email |-> <<"o", "p", "@", "a", "l", "u", "m", "a", "s", "a", ".", "c", "o", "m">>,
    role |-> "Operator", password |-> "op"]
  >>

\* an audit entry: the acting user and the action, whose text is kept as its
\* fixed part and the code or name it is about (ids and timestamps left out)
AuditEntry(user, text, about) ==
  [userId |-> user.id, userName |-> user.name, action |-> [text |-> text, about |-> about]]

\* the audit log App starts from, newest first
mockAuditLogs ==
  <<
   [userId |-> "1", userName |-> "Admin",
    action |-> [text |-> "Fez login no sistema.", about |-> <<>>]],
   [userId |-> "1", userName |-> "Admin",
    action |-> [text |-> "Criou o item", about |-> <<"S", "O", "L", "-", "0", "0", "5">>]],
   [userId |-> "2", userName |-> "Operador",
    action |-> [text |-> "Registrou saida do item", about |-> <<"S", "O", "L", "-", "0", "0", "5">>]]
  >>

\* the elements of an array, as a set
Elems(arr) == {arr[k] : k \in 1..Len(arr)}

\* Array.prototype.find on the item list by id: the first match, Null for undefined
FindById(arr, id) ==
  IF \E k \in 1..Len(arr) : arr[k].id = id
    THEN arr[CHOOSE k \in 1..Len(arr) :
               arr[k].id = id /\ \A j \in 1..(k - 1) : arr[j].id # id]
    ELSE Null


\* the ids of an array of items
Ids(arr) == {arr[k].id : k \in 1..Len(arr)}

\* Array.prototype.map on the item list
MapItems(arr, F(_)) == [k \in 1..Len(arr) |-> F(arr[k])]

-----------------------------------------------------------------------------
(* What the modelled user types and selects *)

Pages == {"dashboard", "stock", "new-entry", "new-exit", "reports", "users",
          "suppliers", "inventory", "audit", "backup"}

\* the pages the user visits while working on the ledger
LedgerPages == {"dashboard", "stock", "new-entry", "new-exit", "inventory"}

\* e-mail and password typed into the login form while working on the ledger
LedgerLogins ==
  { << <<"A", "d", "m", "i", "n", "@", "a", "l", "u", "m", "a", "s", "a", ".", "c", "o", "m">>,
       "admin" >> }

\* values JSON.parse can put in a field of the backup object
JsonArray(elems) == [kind |-> "array", value |-> elems]
JsonString(str) == [kind |-> "string", value |-> str]
JsonUndefined == [kind |-> "undefined", value |-> <<>>]

\* e-mail and password typed into the login form by the Admin and the Operator
SessionLogins ==
  { << <<"a", "d", "m", "i", "n", "@", "a", "l", "u", "m", "a", "s", "a", ".", "c", "o", "m">>,
       "admin" >>,
    << <<"a", "d", "m", "i", "n", "@", "a", "l", "u", "m", "a", "s", "a", ".", "c", "o", "m">>,
       "x" >>,
    << <<"O", "P", "@", "a", "l", "u", "m", "a", "s", "a", ".", "c", "o", "m">>, "op" >>,
    << <<"o", "p", "@", "a", "l", "u", "m", "a", "s", "a", ".", "c", "o", "m">>, "x" >>,
    << <<"o", "p", "@", "a", "l", "u", "m", "a", "s", "a", ".", "c", "o", "m">>, "changeme" >> }

\* what is typed into the two fields of the password dialog
PasswordInputs == {"", "x", "changeme"}

\* the users of the backups below: the Operator has the default password
backupUsers ==
  <<
   [id |-> "1", name |-> "Admin",
    email |-> <<"a", "d", "m", "i", "n", "@", "a", "l", "u", "m", "a", "s", "a", ".", "c", "o", "m">>,
    role |-> "Admin", password |-> "admin"],
   [id |-> "2", name |-> "Operador",
    email |-> <<"o", "p", "@", "a", "l", "u", "m", "a", "s", "a", ".", "c", "o", "m">>,
    role |-> "Operator", password |-> "changeme"]
  >>

\* the items of the backups below: SOL-005 alone, at 75
backupItems ==
  << [mockItems[5] EXCEPT !.stockQuantity = 75, !.totalValue = 262500] >>

\* the ids of the items of a backup that fills one page of the stock list and
\* puts one item on the next
PagedIds == <<"a", "b", "c", "d", "e", "f", "g", "h", "i", "j", "k">>

PagedItems ==
  [k \in 1..Len(PagedIds) |->
     [mockItems[5] EXCEPT !.id = PagedIds[k], !.code = <<"B", "-", PagedIds[k]>>]]

PagedBackupFiles ==
  { [type |-> "application/json", parses |-> TRUE,
     data |-> [items |-> JsonArray(PagedItems), users |-> JsonArray(mockUsers),
               history |-> JsonArray(<<>>)]] }

\* the files offered to the restore: a complete backup with an empty history,
\* one without history, one whose users are not an array, one that does not
\* parse, and a file that is not JSON
BackupFiles ==
  { [type |-> "application/json", parses |-> TRUE,
     data |-> [items |-> JsonArray(backupItems), users |-> JsonArray(backupUsers),
               history |-> JsonArray(<<>>)]],
    [type |-> "application/json", parses |-> TRUE,
     data |-> [items |-> JsonArray(backupItems), users |-> JsonArray(backupUsers),
               history |-> JsonUndefined]],
    [type |-> "application/json", parses |-> TRUE,
     data |-> [items |-> JsonArray(backupItems), users |-> JsonString("users"),
               history |-> JsonArray(<<>>)]],
    [type |-> "application/json", parses |-> FALSE,
     data |-> [items |-> JsonUndefined, users |-> JsonUndefined, history |-> JsonUndefined]],
    [type |-> "text/plain", parses |-> FALSE,
     data |-> [items |-> JsonUndefined, users |-> JsonUndefined, history |-> JsonUndefined]] }

\* what the user types into the search field of the exit form
SearchInputs == { <<"s", "o", "l">> }

\* the same with an empty text, a blank one and a whole code
ExitFormSearchInputs ==
  { <<>>, <<" ">>, <<"s", "o", "l">>, <<"s", "o", "l", "-", "0", "0", "5">> }

\* name/value pairs typed into the user dialog
UserInputs == { <<"name", "Ana">>, <<"email", <<"a", "@", "x">>>> }

\* the item the user picks in the exit form and in the catalog
ItemInputs == {"5"}

\* the items the user counts in the inventory
CountItemInputs == {"2", "5"}

\* the quantity field of the exit form (a number input: "" or a number)
ExitQuantityInputs == { <<>>, <<"0">>, <<"-", "5">>, <<"2", "5">>, <<"9", "9", "9">> }

\* the quantity field of the entry form
EntryQuantityInputs == { <<>>, <<"0">>, <<"-", "5">>, <<"2", "5">> }

\* the code field of the entry form
EntryCodeInputs ==
  { <<"S", "O", "L", "-", "0", "0", "5">>, <<"s", "o", "l", "-", "0", "0", "5">>,
    <<"Z", "Z", "Z">> }

\* the category select of the inventory page: all categories, or the one of SOL-005
FilterCategoryInputs ==
  { <<>>, <<"C", "o", "n", "s", "u", "m", "i", "v", "e", "i", "s">> }

\* the counted-quantity field of the inventory table
CountedInputs ==
  { <<>>, <<" ">>, <<"x">>, <<"2", "5">>, <<"-", "2", "5">> }

\* name/value pairs of handleEditInputChange while creating an item: the user
\* fills the dialog's fields from top to bottom, in the order of this list
CreateInputs ==
  << <<"code", <<"N", "E", "W">>>>, <<"description", <<"X">>>>, <<"category", <<"X">>>>,
     <<"location", <<"X">>>>, <<"unit", <<"X">>>>,
     <<"stockQuantity", <<"-", "1">>>>, <<"avgUnitValue", <<"2", "0", "0">>>> >>

\* name/value pairs typed into the dialog while the catalog is maintained: a
\* new code, the code of SOL-005 in another case and with spaces around it,
\* blank text
CatalogInputs ==
  { <<"code", <<"N", "E", "W">>>>,
    <<"code", <<" ", "s", "o", "l", "-", "0", "0", "5", " ">>>>,
    <<"code", <<" ">>>>,
    <<"description", <<"X">>>>, <<"description", <<" ">>>>,
    <<"category", <<"X">>>>, <<"location", <<"X">>>>,
    <<"unit", <<"X">>>>, <<"unit", <<" ", " ">>>>,
    <<"stockQuantity", <<"5">>>>, <<"avgUnitValue", <<"2", "0", "0">>>> }

\* name/value pairs of handleEditInputChange while editing an item (code is
\* read-only and the quantity and value fields are not rendered)
EditInputs == { <<"description", <<"X">>>> }

-----------------------------------------------------------------------------
(* Initial state: App's useState initialisers and each component's own *)

NoCount == [k \in {} |-> <<>>]

NoLast == [op |-> "", keys |-> {}, counted |-> {}, divergent |-> {}]

\* a toast or error message a handler has just set
Toast(kind) == [op |-> kind, keys |-> {}, counted |-> {}, divergent |-> {}]

\* a timer has just applied this movement
Applied(m) == [op |-> "MovementApply", keys |-> {m.itemId}, counted |-> {}, divergent |-> {}]

\* App.addAuditLog(action, userOverride): the log after the call; nothing is
\* written when there is no user
AddAuditLog(logs, user, text, about) ==
  IF user = Null THEN logs ELSE <<AuditEntry(user, text, about)>> \o logs

\* a handler that writes an audit entry runs only while the run's log has room
LogRoom == Len(auditLogs) < Len(mockAuditLogs) + MaxLogs

\* the variables of the ledger's pages that the session handlers leave alone
formVars == <<exitItemId, exitLoading, exitStatus, entryLoading, entryStatus,
              itemToEdit, countedQuantities, isConfirmModalOpen, clock>>

Init ==
  /\ items = mockItems
  /\ entryExitHistory = mockEntryExitHistory
  /\ currentPage = "dashboard"
  /\ pending = <<>>
  /\ exitItemId = ""
  /\ exitLoading = FALSE
  /\ exitStatus = "none"
  /\ entryLoading = FALSE
  /\ entryStatus = "none"
  /\ itemToEdit = Null
  /\ countedQuantities = NoCount
  /\ isConfirmModalOpen = FALSE
  /\ clock = 1
  /\ last = NoLast
  /\ users = mockUsers
  /\ authenticatedUser = Null
  /\ changePasswordUser = Null
  /\ auditLogs = mockAuditLogs
  /\ filterCategory = <<>>
  /\ itemToDelete = Null
  /\ selectedFile = Null
  /\ exitSearchTerm = <<>>
  /\ exitItemError = FALSE
  /\ exitPreFilled = FALSE
  /\ blurTimers = <<>>
  /\ currentUser = Null
  /\ stockPage = 1

\* a page that does not look at the role of the user
renderedPage_AnyRole ==
  IF authenticatedUser = Null THEN "none" ELSE currentPage

adminPages == {"users", "suppliers", "inventory", "audit", "backup"}

\* the page App.renderPage renders ("none" when nobody is authenticated)
renderedPage ==
  IF authenticatedUser = Null THEN "none"
  ELSE IF currentPage \in adminPages /\ authenticatedUser.role # "Admin" THEN "dashboard"
  ELSE currentPage

\* a pending continuation whose component has been unmounted still updates
\* App's items but no longer the component's own state
Unmounted(q) == [k \in 1..Len(q) |-> [q[k] EXCEPT !.live = FALSE]]

\* Layout: setActivePage(p); renderPage mounts the page's component afresh
Navigate(p) ==
  /\ p \in Pages
  /\ p # currentPage
  /\ authenticatedUser # Null
  /\ changePasswordUser = Null
  /\ itemToEdit = Null
  /\ itemToDelete = Null
  /\ currentUser = Null
  /\ ~isConfirmModalOpen
  /\ currentPage' = p
  /\ pending' = Unmounted(pending)
  /\ exitItemId' = ""
  /\ exitLoading' = FALSE
  /\ exitStatus' = "none"
  /\ entryLoading' = FALSE
  /\ entryStatus' = "none"
  /\ countedQuantities' = NoCount
  /\ last' = NoLast
  /\ filterCategory' = <<>>
  /\ selectedFile' = Null
  /\ exitSearchTerm' = <<>>
  /\ exitItemError' = FALSE
  /\ exitPreFilled' = FALSE
  /\ blurTimers' = <<>>
  /\ currentUser' = Null
  /\ stockPage' = 1
  /\ UNCHANGED <<items, entryExitHistory, itemToEdit, isConfirmModalOpen, clock,
                 itemToDelete>>
  /\ UNCHANGED sessionVars

-----------------------------------------------------------------------------
(* NewExit *)

\* NewExit: selectedItem = items.find(item => item.id === itemId)
selectedItem == FindById(items, exitItemId)

\* NewExit: isSubmitDisabled
ExitSubmitDisabled == exitLoading \/ exitItemId = "" \/ exitItemError

\* String.prototype.includes
Includes(s, sub) ==
  \E i \in 0..(Len(s) - Len(sub)) : SubSeq(s, i + 1, i + Len(sub)) = sub

\* `${item.code} - ${item.description}`
ItemLabel(item) == item.code \o <<" ", "-", " ">> \o item.description

\* NewExit.searchResults
SearchResults(arr, term, itemId) ==
  LET Found(item) == \/ Includes(ToLowerCase(item.code), ToLowerCase(term))
                     \/ Includes(ToLowerCase(item.description), ToLowerCase(term))
  IN  IF Trim(term) = <<>> \/ itemId # "" THEN <<>> ELSE SelectSeq(arr, Found)

searchResults == SearchResults(items, exitSearchTerm, exitItemId)

\* StockList.handleNewExitForItem: the exit form is mounted with the item selected
NewExitForItem(id) ==
  /\ currentPage = "stock"
  /\ itemToEdit = Null
  /\ itemToDelete = Null
  /\ id \in Ids(items) \cap ItemInputs
  /\ currentPage' = "new-exit"
  /\ pending' = Unmounted(pending)
  /\ exitItemId' = id
  /\ exitLoading' = FALSE
  /\ exitStatus' = "none"
  /\ last' = NoLast
  /\ exitSearchTerm' = ItemLabel(FindById(items, id))
  /\ exitItemError' = FALSE
  /\ exitPreFilled' = TRUE
  /\ blurTimers' = <<>>
  /\ UNCHANGED <<items, entryExitHistory, entryLoading, entryStatus, itemToEdit,
                 countedQuantities, isConfirmModalOpen, clock>>
  /\ UNCHANGED <<sessionVars, pageVars>>
  /\ UNCHANGED currentUser
  /\ stockPage' = 1

\* NewExit.handleItemSelect, called for an item of the result list (a click on
\* it, or Enter on the highlighted, the only or the exactly matching result)
ExitItemSelect(id) ==
  /\ currentPage = "new-exit"
  /\ ~exitPreFilled
  /\ id \in Ids(searchResults)
  /\ exitItemId' = id
  /\ exitSearchTerm' = ItemLabel(FindById(items, id))
  /\ exitItemError' = FALSE
  /\ last' = NoLast
  /\ UNCHANGED <<items, entryExitHistory, currentPage, pending, exitLoading, exitStatus,
                 entryLoading, entryStatus, itemToEdit, countedQuantities,
                 isConfirmModalOpen, clock, exitPreFilled, blurTimers>>
  /\ UNCHANGED <<sessionVars, pageVars>>
  /\ UNCHANGED currentUser
  /\ UNCHANGED stockPage

\* NewExit.handleSearchChange: editing the search text clears the selection and
\* the error (the field is read-only in a pre-filled form)
ExitSearchChange(term) ==
  /\ currentPage = "new-exit"
  /\ ~exitPreFilled
  /\ term # exitSearchTerm
  /\ exitSearchTerm' = term
  /\ exitItemId' = ""
  /\ exitItemError' = FALSE
  /\ last' = NoLast
  /\ UNCHANGED <<items, entryExitHistory, currentPage, pending, exitLoading, exitStatus,
                 entryLoading, entryStatus, itemToEdit, countedQuantities,
                 isConfirmModalOpen, clock, exitPreFilled, blurTimers>>
  /\ UNCHANGED <<sessionVars, pageVars>>
  /\ UNCHANGED currentUser
  /\ UNCHANGED stockPage

\* NewExit.handleSearchBlur: the field loses the focus and a timer is started
\* with the itemId and searchTerm of this render
ExitSearchBlur ==
  /\ currentPage = "new-exit"
  /\ Len(blurTimers) < MaxBlurs
  /\ blurTimers' = Append(blurTimers, [itemId |-> exitItemId, searchTerm |-> exitSearchTerm])
  /\ last' = NoLast
  /\ UNCHANGED <<items, entryExitHistory, currentPage, pending, formVars, sessionVars,
                 pageVars, exitSearchTerm, exitItemError, exitPreFilled>>
  /\ UNCHANGED currentUser
  /\ UNCHANGED stockPage

\* items.find(i => i.code.toLowerCase() === searchTerm.trim().toLowerCase())
ExactMatch(arr, term) ==
  IF \E k \in 1..Len(arr) : ToLowerCase(arr[k].code) = ToLowerCase(Trim(term))
    THEN arr[CHOOSE k \in 1..Len(arr) :
               /\ ToLowerCase(arr[k].code) = ToLowerCase(Trim(term))
               /\ \A j \in 1..(k - 1) : ToLowerCase(arr[j].code) # ToLowerCase(Trim(term))]
    ELSE Null

\* the callback of handleSearchBlur's timer: it validates with the itemId and
\* searchTerm its closure captured (the codes of items do not change meanwhile)
ExitBlurTimeout ==
  /\ blurTimers # <<>>
  /\ LET t == Head(blurTimers)
         exactMatch == ExactMatch(items, t.searchTerm)
     IN  IF t.itemId = "" /\ Trim(t.searchTerm) # <<>>
           THEN IF exactMatch # Null
                  THEN /\ exitItemId' = exactMatch.id
                       /\ exitSearchTerm' = ItemLabel(exactMatch)
                       /\ exitItemError' = FALSE
                  ELSE /\ exitItemError' = TRUE
                       /\ UNCHANGED <<exitItemId, exitSearchTerm>>
           ELSE UNCHANGED <<exitItemId, exitSearchTerm, exitItemError>>
  /\ blurTimers' = Tail(blurTimers)
  /\ last' = NoLast
  /\ UNCHANGED <<items, entryExitHistory, currentPage, pending, exitLoading, exitStatus,
                 entryLoading, entryStatus, itemToEdit, countedQuantities,
                 isConfirmModalOpen, clock, exitPreFilled>>
  /\ UNCHANGED <<sessionVars, pageVars>>
  /\ UNCHANGED currentUser
  /\ UNCHANGED stockPage

\* a validation that does not compare the quantity with the stock
ExitAccepted_NoStockCheck(quantity, filled) ==
  LET qty == ParseFloat(quantity)
  IN  /\ ~(exitItemId = "" \/ quantity = <<>> \/ ~filled)
      /\ ~(~qty.nan /\ qty.v <= 0)

\* the validation of NewExit.handleSubmit: TRUE when the exit is accepted
ExitAccepted(quantity, filled) ==
  LET qty == ParseFloat(quantity)
  IN  /\ ~(exitItemId = "" \/ quantity = <<>> \/ ~filled)
      /\ ~(~qty.nan /\ qty.v <= 0)
      /\ ~(selectedItem # Null /\ ~qty.nan /\ qty.v > selectedItem.stockQuantity)

\* NewExit.handleSubmit up to the await: validation against the stock seen now
ExitSubmit(quantity, filled) ==
  /\ currentPage = "new-exit"
  /\ ~ExitSubmitDisabled
  /\ IF ExitAccepted(quantity, filled)
       THEN /\ Len(pending) < MaxPending
            /\ pending' = Append(pending, [type |-> "exit", itemId |-> exitItemId,
                                           qty |-> ParseFloat(quantity).v,
                                           exact |-> selectedItem # Null /\
                                             ParseFloat(quantity).v = selectedItem.stockQuantity,
                                           live |-> TRUE])
            /\ exitLoading' = TRUE
            /\ exitStatus' = "none"
            /\ exitItemError' = FALSE
            /\ last' = NoLast
       ELSE /\ exitStatus' = "error"
            /\ last' = NoLast
            /\ UNCHANGED <<pending, exitLoading, exitItemError>>
  /\ UNCHANGED <<items, entryExitHistory, currentPage, exitItemId, entryLoading,
                 entryStatus, itemToEdit, countedQuantities, isConfirmModalOpen, clock>>
  /\ UNCHANGED <<sessionVars, pageVars, exitSearchTerm, exitPreFilled, blurTimers>>
  /\ UNCHANGED currentUser
  /\ UNCHANGED stockPage

\* the updater NewExit.handleSubmit passes to setItems after the delay
ExitUpdater(prevItems, itemId, qty) ==
  LET F(item) ==
        IF item.id = itemId
          THEN LET newQuantity == item.stockQuantity - qty
               IN  [item EXCEPT !.stockQuantity = newQuantity,
                                !.totalValue = newQuantity * item.avgUnitValue]
          ELSE item
  IN  MapItems(prevItems, F)

-----------------------------------------------------------------------------
(* NewEntry *)

\* NewEntry.handleSubmit: items.find(i => i.code.toLowerCase() === code.toLowerCase())
FindByCode(arr, code) ==
  IF \E k \in 1..Len(arr) : ToLowerCase(arr[k].code) = ToLowerCase(code)
    THEN arr[CHOOSE k \in 1..Len(arr) :
               /\ ToLowerCase(arr[k].code) = ToLowerCase(code)
               /\ \A j \in 1..(k - 1) : ToLowerCase(arr[j].code) # ToLowerCase(code)]
    ELSE Null

\* the quantities and the code typed in the PAR-001 scenario
ScenarioExitQuantities == { <<"3", "0", "0">>, <<"2", "0", "0", "0">> }

ScenarioSearchInputs == { <<"p", "a", "r">> }

ScenarioEntryQuantities == { <<"5", "0", "0">> }

ScenarioEntryCodes == { <<"P", "A", "R", "-", "0", "0", "1">> }

\* checks that let a quantity of zero or less pass
EntryValid_AnyQuantity(code, quantity, filled) ==
  /\ filled
  /\ ~(code = <<>> \/ quantity = <<>>)

\* the checks of NewEntry.handleSubmit before the item lookup: TRUE when they pass
\* (filled: no codeError, and description, supplier and invoice are not empty)
EntryValid(code, quantity, filled) ==
  LET qty == ParseFloat(quantity)
  IN  /\ filled
      /\ ~(code = <<>> \/ quantity = <<>>)
      /\ ~(~qty.nan /\ qty.v <= 0)

\* NewEntry.handleSubmit up to the await
EntrySubmit(code, quantity, filled) ==
  /\ currentPage = "new-entry"
  /\ ~entryLoading
  /\ LET itemToUpdate == FindByCode(items, code)
     IN  IF EntryValid(code, quantity, filled) /\ itemToUpdate # Null
           THEN /\ Len(pending) < MaxPending
                /\ itemToUpdate.stockQuantity + ParseFloat(quantity).v <= StockCap(itemToUpdate.id)
                /\ pending' = Append(pending, [type |-> "entry", itemId |-> itemToUpdate.id,
                                               qty |-> ParseFloat(quantity).v,
                                               exact |-> FALSE,
                                               live |-> TRUE])
                /\ entryLoading' = TRUE
                /\ entryStatus' = "none"
                /\ last' = NoLast
           ELSE /\ entryStatus' = "error"
                /\ last' = NoLast
                /\ UNCHANGED <<pending, entryLoading>>
  /\ UNCHANGED <<items, entryExitHistory, currentPage, exitItemId, exitLoading,
                 exitStatus, itemToEdit, countedQuantities, isConfirmModalOpen, clock>>
  /\ UNCHANGED <<sessionVars, pageVars>>
  /\ UNCHANGED exitFormVars
  /\ UNCHANGED currentUser
  /\ UNCHANGED stockPage

\* an entry that puts an item back into the list when none has the id
EntryUpdater_Upsert(prevItems, itemId, qty) ==
  LET F(item) ==
        IF item.id = itemId
          THEN LET newQuantity == item.stockQuantity + qty
               IN  [item EXCEPT !.stockQuantity = newQuantity,
                                !.totalValue = newQuantity * item.avgUnitValue]
          ELSE item
  IN  IF itemId \in Ids(prevItems)
        THEN MapItems(prevItems, F)
        ELSE Append(prevItems, [id |-> itemId, stockQuantity |-> qty])

EntryUpdater_KeepTotal(prevItems, itemId, qty) ==
  LET F(item) == IF item.id = itemId
                   THEN [item EXCEPT !.stockQuantity = item.stockQuantity + qty]
                   ELSE item
  IN  MapItems(prevItems, F)

\* the updater NewEntry.handleSubmit passes to setItems after the delay
EntryUpdater(prevItems, itemId, qty) ==
  LET F(item) ==
        IF item.id = itemId
          THEN LET newQuantity == item.stockQuantity + qty
               IN  [item EXCEPT !.stockQuantity = newQuantity,
                                !.totalValue = newQuantity * item.avgUnitValue]
          ELSE item
  IN  MapItems(prevItems, F)

-----------------------------------------------------------------------------
(* The 1500 ms timers: all have the same delay, so they fire in the order of
   submission *)

\* the rest of handleSubmit (entry or exit) after the await
MovementApply ==
  /\ pending # <<>>
  /\ LET m == Head(pending)
     IN  /\ items' = IF m.type = "exit" THEN ExitUpdater(items, m.itemId, m.qty)
                                        ELSE EntryUpdater(items, m.itemId, m.qty)
         /\ IF m.live /\ m.type = "exit"
              THEN /\ exitLoading' = FALSE /\ exitStatus' = "success"
                   /\ exitItemId' = "" /\ exitSearchTerm' = <<>>
              ELSE UNCHANGED <<exitLoading, exitStatus, exitItemId, exitSearchTerm>>
         /\ IF m.live /\ m.type = "entry"
              THEN entryLoading' = FALSE /\ entryStatus' = "success"
              ELSE UNCHANGED <<entryLoading, entryStatus>>
         /\ last' = Applied(m)
  /\ pending' = Tail(pending)
  /\ UNCHANGED <<entryExitHistory, currentPage, itemToEdit, countedQuantities,
                 isConfirmModalOpen, clock>>
  /\ UNCHANGED <<sessionVars, pageVars, exitItemError, exitPreFilled, blurTimers>>
  /\ UNCHANGED currentUser
  /\ UNCHANGED stockPage

-----------------------------------------------------------------------------
(* StockList: the catalog dialog *)

\* Number(value) of a number input's text: 0 for the empty text
ToNumber(s) == IF Trim(s) = <<>> THEN Num(0) ELSE ParseFloat(s)

NumberFields == {"minQuantity", "stockQuantity", "avgUnitValue", "leadTimeDays"}

\* a draft has no id until it is created
isCreating == itemToEdit # Null /\ itemToEdit.id = ""

\* the draft StockList.openCreateModal starts from
NewDraft ==
  [id |-> "", code |-> <<>>, description |-> <<>>, category |-> <<>>,
   location |-> <<>>, unit |-> <<>>, stockQuantity |-> 0,
   minQuantity |-> 0, leadTimeDays |-> 0, avgUnitValue |-> 0,
   totalValue |-> 0]

\* StockList.openCreateModal
OpenCreateModal ==
  /\ currentPage = "stock"
  /\ itemToEdit = Null
  /\ itemToDelete = Null
  /\ clock <= MaxCreates
  /\ itemToEdit' = NewDraft
  /\ last' = NoLast
  /\ UNCHANGED <<items, entryExitHistory, currentPage, pending, exitItemId, exitLoading,
                 exitStatus, entryLoading, entryStatus, countedQuantities,
                 isConfirmModalOpen, clock>>
  /\ UNCHANGED <<sessionVars, pageVars>>
  /\ UNCHANGED exitFormVars
  /\ UNCHANGED currentUser
  /\ UNCHANGED stockPage

\* StockList.openEditModal: the dialog works on a copy of the item
OpenEditModal(id) ==
  /\ currentPage = "stock"
  /\ itemToEdit = Null
  /\ itemToDelete = Null
  /\ id \in Ids(items) \cap ItemInputs
  /\ itemToEdit' = FindById(items, id)
  /\ last' = NoLast
  /\ UNCHANGED <<items, entryExitHistory, currentPage, pending, exitItemId, exitLoading,
                 exitStatus, entryLoading, entryStatus, countedQuantities,
                 isConfirmModalOpen, clock>>
  /\ UNCHANGED <<sessionVars, pageVars>>
  /\ UNCHANGED exitFormVars
  /\ UNCHANGED currentUser
  /\ UNCHANGED stockPage

\* StockList.closeEditModal
CloseEditModal ==
  /\ currentPage = "stock"
  /\ itemToEdit # Null
  /\ itemToEdit' = Null
  /\ last' = NoLast
  /\ UNCHANGED <<items, entryExitHistory, currentPage, pending, exitItemId, exitLoading,
                 exitStatus, entryLoading, entryStatus, countedQuantities,
                 isConfirmModalOpen, clock>>
  /\ UNCHANGED <<sessionVars, pageVars>>
  /\ UNCHANGED exitFormVars
  /\ UNCHANGED currentUser
  /\ UNCHANGED stockPage

\* the fields the dialog renders as editable for an existing item
EditableFields ==
  {"description", "category", "location", "unit", "minQuantity", "leadTimeDays"}

\* StockList.handleEditInputChange
EditInputChange(name, value) ==
  /\ currentPage = "stock"
  /\ itemToEdit # Null
  /\ IF isCreating
       THEN \E k \in 1..Len(CreateInputs) :
              /\ CreateInputs[k][1] = name
              /\ itemToEdit[name] = NewDraft[name]
              /\ \A j \in 1..(k - 1) : itemToEdit[CreateInputs[j][1]] # NewDraft[CreateInputs[j][1]]
       ELSE name \in EditableFields
  /\ itemToEdit' = [itemToEdit EXCEPT ![name] =
                      IF name \in NumberFields THEN ToNumber(value).v ELSE value]
  /\ last' = NoLast
  /\ UNCHANGED <<items, entryExitHistory, currentPage, pending, exitItemId, exitLoading,
                 exitStatus, entryLoading, entryStatus, countedQuantities,
                 isConfirmModalOpen, clock>>
  /\ UNCHANGED <<sessionVars, pageVars>>
  /\ UNCHANGED exitFormVars
  /\ UNCHANGED currentUser
  /\ UNCHANGED stockPage

\* a validation that compares the codes as typed
CreateValid_CodeAsTyped(draft) ==
  /\ \A key \in {"code", "description", "category", "location", "unit"} :
        ~(draft[key] = <<>> \/ Trim(draft[key]) = <<>>)
  /\ ~\E k \in 1..Len(items) : items[k].code = draft.code

\* a validation that takes white space for a value
CreateValid_BlankAccepted(draft) ==
  /\ \A key \in {"code", "description", "category", "location", "unit"} :
        draft[key] # <<>>
  /\ ~\E k \in 1..Len(items) :
        ToLowerCase(Trim(items[k].code)) = ToLowerCase(Trim(draft.code))

\* handleSaveItem, validation of a new item: TRUE when the draft is accepted
CreateValid(draft) ==
  /\ \A key \in {"code", "description", "category", "location", "unit"} :
        ~(draft[key] = <<>> \/ Trim(draft[key]) = <<>>)
  /\ ~\E k \in 1..Len(items) :
        ToLowerCase(Trim(items[k].code)) = ToLowerCase(Trim(draft.code))

\* handleSaveItem, editing: the item with the draft's id is replaced by the draft
EditedItems(prevItems, draft) ==
  LET updatedItem == [draft EXCEPT !.totalValue = draft.stockQuantity * draft.avgUnitValue]
      F(item) == IF item.id = updatedItem.id THEN updatedItem ELSE item
  IN  MapItems(prevItems, F)

\* handleSaveItem, creating: the new item is appended
CreatedItems(prevItems, draft, now) ==
  LET newItem == [draft EXCEPT !.id = "item-" \o ToString(now),
                               !.code = Trim(draft.code),
                               !.description = Trim(draft.description),
                               !.category = Trim(draft.category),
                               !.location = Trim(draft.location),
                               !.unit = Trim(draft.unit),
                               !.totalValue = draft.stockQuantity * draft.avgUnitValue]
  IN  Append(prevItems, newItem)

\* StockList.handleSaveItem
SaveItem ==
  /\ currentPage = "stock"
  /\ itemToEdit # Null
  /\ IF isCreating /\ ~CreateValid(itemToEdit)
       THEN /\ last' = Toast("SaveItem:rejected")
            /\ UNCHANGED <<items, itemToEdit, clock, auditLogs>>
       ELSE IF ~isCreating
       THEN /\ LogRoom
            /\ items' = EditedItems(items, itemToEdit)
            /\ auditLogs' = AddAuditLog(auditLogs, authenticatedUser, "Editou o item",
                                        itemToEdit.code)
            /\ itemToEdit' = Null
            /\ last' = Toast("SaveItem:saved")
            /\ UNCHANGED clock
       ELSE /\ LogRoom
            /\ items' = CreatedItems(items, itemToEdit, clock)
            /\ auditLogs' = AddAuditLog(auditLogs, authenticatedUser, "Criou o item",
                                        Trim(itemToEdit.code))
            /\ itemToEdit' = Null
            /\ clock' = clock + 1
            /\ last' = Toast("SaveItem:created")
  /\ UNCHANGED <<entryExitHistory, currentPage, pending, exitItemId, exitLoading,
                 exitStatus, entryLoading, entryStatus, countedQuantities,
                 isConfirmModalOpen>>
  /\ UNCHANGED <<users, authenticatedUser, changePasswordUser, pageVars>>
  /\ UNCHANGED exitFormVars
  /\ UNCHANGED currentUser
  /\ UNCHANGED stockPage

\* StockList.filteredItems with the status and location filters and the
\* search text left empty
StockFilteredItems(arr, category) ==
  LET matchesCategory(item) == IF category # <<>> THEN item.category = category ELSE TRUE
  IN  SelectSeq(arr, matchesCategory)

stockFilteredItems == StockFilteredItems(items, filterCategory)

\* StockList: const [itemsPerPage] = useState(10)
itemsPerPage == 10

\* Math.ceil(filteredItems.length / itemsPerPage)
totalPages == (Len(stockFilteredItems) + itemsPerPage - 1) \div itemsPerPage

\* Array.prototype.slice(start, end) with 0 <= start <= end
Slice(arr, start, end) ==
  SubSeq(arr, start + 1, IF end < Len(arr) THEN end ELSE Len(arr))

\* StockList.paginatedItems
paginatedItems ==
  LET startIndex == (stockPage - 1) * itemsPerPage
  IN  Slice(stockFilteredItems, startIndex, startIndex + itemsPerPage)

\* StockList: the category select; the effect on the filters resets the page
StockSetFilterCategory(category) ==
  /\ currentPage = "stock"
  /\ itemToEdit = Null
  /\ itemToDelete = Null
  /\ category # filterCategory
  /\ category = <<>> \/ \E k \in 1..Len(items) : items[k].category = category
  /\ filterCategory' = category
  /\ stockPage' = 1
  /\ last' = NoLast
  /\ UNCHANGED <<items, entryExitHistory, currentPage, pending, formVars, sessionVars,
                 itemToDelete, selectedFile, exitFormVars, currentUser>>

\* StockList: the pagination buttons Primeira, Anterior, Proxima and Ultima,
\* each disabled as the code disables it
StockPageButton(button) ==
  /\ currentPage = "stock"
  /\ itemToEdit = Null
  /\ itemToDelete = Null
  /\ totalPages > 0
  /\ \/ button = "Primeira" /\ stockPage # 1 /\ stockPage' = 1
     \/ button = "Anterior" /\ stockPage # 1 /\ stockPage' = stockPage - 1
     \/ button = "Proxima" /\ stockPage # totalPages /\ stockPage < MaxPage
          /\ stockPage' = stockPage + 1
     \/ button = "Ultima" /\ stockPage # totalPages /\ stockPage' = totalPages
  /\ last' = NoLast
  /\ UNCHANGED <<items, entryExitHistory, currentPage, pending, formVars, sessionVars,
                 pageVars, exitFormVars, currentUser>>

\* StockList.openDeleteConfirmation
OpenDeleteConfirmation(id) ==
  /\ currentPage = "stock"
  /\ itemToEdit = Null
  /\ itemToDelete = Null
  /\ id \in Ids(paginatedItems)
  /\ itemToDelete' = FindById(items, id)
  /\ last' = NoLast
  /\ UNCHANGED <<items, entryExitHistory, currentPage, pending, formVars, sessionVars,
                 filterCategory, selectedFile>>
  /\ UNCHANGED exitFormVars
  /\ UNCHANGED currentUser
  /\ UNCHANGED stockPage

\* StockList.closeDeleteConfirmation
CloseDeleteConfirmation ==
  /\ currentPage = "stock"
  /\ itemToDelete # Null
  /\ itemToDelete' = Null
  /\ last' = NoLast
  /\ UNCHANGED <<items, entryExitHistory, currentPage, pending, formVars, sessionVars,
                 filterCategory, selectedFile>>
  /\ UNCHANGED exitFormVars
  /\ UNCHANGED currentUser
  /\ UNCHANGED stockPage

\* an updater that drops the head of the list, whatever the id
WithoutItem_First(prevItems, id) ==
  IF prevItems = <<>> THEN prevItems ELSE Tail(prevItems)

\* the setItems updater of confirmDeleteItem
WithoutItem(prevItems, id) ==
  LET Keep(item) == item.id # id
  IN  SelectSeq(prevItems, Keep)

\* StockList.confirmDeleteItem
ConfirmDeleteItem ==
  /\ currentPage = "stock"
  /\ itemToDelete # Null
  /\ LogRoom
  /\ items' = WithoutItem(items, itemToDelete.id)
  /\ auditLogs' = AddAuditLog(auditLogs, authenticatedUser, "Excluiu o item",
                              itemToDelete.code)
  /\ itemToDelete' = Null
  /\ last' = Toast("DeleteItem:deleted")
  /\ UNCHANGED <<entryExitHistory, currentPage, pending, formVars, users,
                 authenticatedUser, changePasswordUser, filterCategory, selectedFile>>
  /\ UNCHANGED exitFormVars
  /\ UNCHANGED currentUser
  /\ UNCHANGED stockPage

-----------------------------------------------------------------------------
(* Inventory: the physical count *)

\* Inventory.filteredItems with the location filter and the search text left
\* empty; the sort by location and code, which only reorders, is left out
FilteredItems(arr, category) ==
  LET Matches(item) == IF category # <<>> THEN item.category = category ELSE TRUE
  IN  SelectSeq(arr, Matches)

filteredItems == FilteredItems(items, filterCategory)

\* Inventory: the category select
SetFilterCategory(category) ==
  /\ renderedPage = "inventory"
  /\ ~isConfirmModalOpen
  /\ category # filterCategory
  /\ category = <<>> \/ \E k \in 1..Len(items) : items[k].category = category
  /\ filterCategory' = category
  /\ last' = NoLast
  /\ UNCHANGED <<items, entryExitHistory, currentPage, pending, formVars, sessionVars,
                 itemToDelete, selectedFile>>
  /\ UNCHANGED exitFormVars
  /\ UNCHANGED currentUser
  /\ UNCHANGED stockPage

\* Inventory.summary: countedItemsCount, and progress rounded down to a whole
\* percentage
Summary(counted, filtered) ==
  LET countedItemsCount == Cardinality({key \in DOMAIN counted : Trim(counted[key]) # <<>>})
  IN  [countedItemsCount |-> countedItemsCount,
       progress |-> IF Len(filtered) > 0
                      THEN (countedItemsCount * 100) \div Len(filtered)
                      ELSE 0]

summary == Summary(countedQuantities, filteredItems)

\* Inventory.handleCountChange
HandleCountChange(itemId, value) ==
  /\ renderedPage = "inventory"
  /\ ~isConfirmModalOpen
  /\ itemId \in Ids(filteredItems) \cap CountItemInputs
  /\ value \in CountedInputs
  /\ countedQuantities' =
       [k \in DOMAIN countedQuantities \cup {itemId} |->
          IF k = itemId THEN value ELSE countedQuantities[k]]
  /\ last' = NoLast
  /\ UNCHANGED <<items, entryExitHistory, currentPage, pending, exitItemId, exitLoading,
                 exitStatus, entryLoading, entryStatus, itemToEdit, isConfirmModalOpen,
                 clock>>
  /\ UNCHANGED <<sessionVars, pageVars>>
  /\ UNCHANGED exitFormVars
  /\ UNCHANGED currentUser
  /\ UNCHANGED stockPage

\* { ...item, newQuantity, difference }
WithAdjustment(item, countedQty) ==
  [f \in DOMAIN item \cup {"newQuantity", "difference"} |->
     IF f = "newQuantity" THEN countedQty
     ELSE IF f = "difference" THEN countedQty - item.stockQuantity
     ELSE item[f]]

\* a divergence list that coerces the text as Number() does: blank and
\* non-numeric text reads as 0
ItemsToUpdate_Coerced(arr, counted) ==
  { WithAdjustment(FindById(arr, itemId),
                   IF ParseFloat(counted[itemId]).nan THEN 0 ELSE ParseFloat(counted[itemId]).v) :
      itemId \in { k \in DOMAIN counted :
                     /\ FindById(arr, k) # Null
                     /\ FindById(arr, k).stockQuantity #
                          (IF ParseFloat(counted[k]).nan THEN 0 ELSE ParseFloat(counted[k]).v) } }

\* a divergence list without the equality filter
ItemsToUpdate_KeepEqual(arr, counted) ==
  { WithAdjustment(FindById(arr, itemId), ParseFloat(counted[itemId]).v) :
      itemId \in { k \in DOMAIN counted :
                     /\ counted[k] # <<>>
                     /\ FindById(arr, k) # Null
                     /\ ~ParseFloat(counted[k]).nan } }

\* Inventory.itemsToUpdate (the divergence list), as a set: the order of
\* Object.entries is not modelled
ItemsToUpdate(arr, counted) ==
  { WithAdjustment(FindById(arr, itemId), ParseFloat(counted[itemId]).v) :
      itemId \in { k \in DOMAIN counted :
                     /\ counted[k] # <<>>
                     /\ FindById(arr, k) # Null
                     /\ ~ParseFloat(counted[k]).nan
                     /\ FindById(arr, k).stockQuantity # ParseFloat(counted[k]).v } }

itemsToUpdate == ItemsToUpdate(items, countedQuantities)

\* a commit that adjusts only the items the current filter shows
UpdatedItems_VisibleOnly(arr, counted) ==
  LET F(item) ==
        IF item.id \in DOMAIN counted /\ Trim(counted[item.id]) # <<>>
             /\ ~ParseFloat(counted[item.id]).nan
             /\ item.id \in Ids(filteredItems)
          THEN LET countedQty == ParseFloat(counted[item.id]).v
               IN  [item EXCEPT !.stockQuantity = countedQty,
                                !.totalValue = countedQty * item.avgUnitValue]
          ELSE item
  IN  MapItems(arr, F)

\* a commit that sets the quantity and keeps the old totalValue
UpdatedItems_KeepTotal(arr, counted) ==
  LET F(item) ==
        IF item.id \in DOMAIN counted /\ Trim(counted[item.id]) # <<>>
             /\ ~ParseFloat(counted[item.id]).nan
          THEN [item EXCEPT !.stockQuantity = ParseFloat(counted[item.id]).v]
          ELSE item
  IN  MapItems(arr, F)

\* a commit that takes a blank or non-numeric entry as a count of 0
UpdatedItems_BlankAsZero(arr, counted) ==
  LET F(item) ==
        IF item.id \in DOMAIN counted
          THEN LET countedQty == IF ParseFloat(counted[item.id]).nan
                                   THEN 0 ELSE ParseFloat(counted[item.id]).v
               IN  [item EXCEPT !.stockQuantity = countedQty,
                                !.totalValue = countedQty * item.avgUnitValue]
          ELSE item
  IN  MapItems(arr, F)

\* the items.map of Inventory.handleSaveInventory
UpdatedItems(arr, counted) ==
  LET F(item) ==
        IF item.id \in DOMAIN counted /\ Trim(counted[item.id]) # <<>>
             /\ ~ParseFloat(counted[item.id]).nan
          THEN LET countedQty == ParseFloat(counted[item.id]).v
               IN  [item EXCEPT !.stockQuantity = countedQty,
                                !.totalValue = countedQty * item.avgUnitValue]
          ELSE item
  IN  MapItems(arr, F)

\* a button that is enabled whatever the divergence list
OpenConfirmModal_NeverDisabled ==
  /\ renderedPage = "inventory"
  /\ ~isConfirmModalOpen
  /\ isConfirmModalOpen' = TRUE
  /\ last' = NoLast
  /\ UNCHANGED <<items, entryExitHistory, currentPage, pending, exitItemId, exitLoading,
                 exitStatus, entryLoading, entryStatus, itemToEdit, countedQuantities,
                 clock>>
  /\ UNCHANGED <<sessionVars, pageVars>>
  /\ UNCHANGED exitFormVars
  /\ UNCHANGED currentUser
  /\ UNCHANGED stockPage

\* Inventory: the "Salvar Inventario" button, disabled while itemsToUpdate is empty
OpenConfirmModal ==
  /\ renderedPage = "inventory"
  /\ ~isConfirmModalOpen
  /\ itemsToUpdate # {}
  /\ isConfirmModalOpen' = TRUE
  /\ last' = NoLast
  /\ UNCHANGED <<items, entryExitHistory, currentPage, pending, exitItemId, exitLoading,
                 exitStatus, entryLoading, entryStatus, itemToEdit, countedQuantities,
                 clock>>
  /\ UNCHANGED <<sessionVars, pageVars>>
  /\ UNCHANGED exitFormVars
  /\ UNCHANGED currentUser
  /\ UNCHANGED stockPage

\* Inventory: the dialog's Cancelar button and onClose
CloseConfirmModal ==
  /\ renderedPage = "inventory"
  /\ isConfirmModalOpen
  /\ isConfirmModalOpen' = FALSE
  /\ last' = NoLast
  /\ UNCHANGED <<items, entryExitHistory, currentPage, pending, exitItemId, exitLoading,
                 exitStatus, entryLoading, entryStatus, itemToEdit, countedQuantities,
                 clock>>
  /\ UNCHANGED <<sessionVars, pageVars>>
  /\ UNCHANGED exitFormVars
  /\ UNCHANGED currentUser
  /\ UNCHANGED stockPage

\* Inventory.handleSaveInventory (the dialog's "Confirmar e Salvar" button)
SaveInventory ==
  /\ renderedPage = "inventory"
  /\ isConfirmModalOpen
  /\ items' = UpdatedItems(items, countedQuantities)
  /\ countedQuantities' = NoCount
  /\ isConfirmModalOpen' = FALSE
  /\ last' = [op |-> "SaveInventory",
               keys |-> DOMAIN countedQuantities,
               counted |-> {k \in DOMAIN countedQuantities :
                              ~ParseFloat(countedQuantities[k]).nan},
               divergent |-> {d.id : d \in itemsToUpdate}]
  /\ UNCHANGED <<entryExitHistory, currentPage, pending, exitItemId, exitLoading,
                 exitStatus, entryLoading, entryStatus, itemToEdit, clock>>
  /\ UNCHANGED <<sessionVars, pageVars>>
  /\ UNCHANGED exitFormVars
  /\ UNCHANGED currentUser
  /\ UNCHANGED stockPage

-----------------------------------------------------------------------------
(* Session: Login, Layout's logout button, ChangePasswordModal *)

\* Array.prototype.find on the user list by id
FindUser(arr, id) ==
  IF \E k \in 1..Len(arr) : arr[k].id = id
    THEN arr[CHOOSE k \in 1..Len(arr) :
               arr[k].id = id /\ \A j \in 1..(k - 1) : arr[j].id # id]
    ELSE Null

\* Login.handleSubmit: the first user with that e-mail (ignoring case) and password
FindLogin(arr, email, password) ==
  LET Match(u) == ToLowerCase(u.email) = ToLowerCase(email) /\ u.password = password
  IN  IF \E k \in 1..Len(arr) : Match(arr[k])
        THEN arr[CHOOSE k \in 1..Len(arr) :
                   Match(arr[k]) /\ \A j \in 1..(k - 1) : ~Match(arr[j])]
        ELSE Null

\* Login.handleSubmit followed by App.handleLogin
Login(email, password) ==
  /\ authenticatedUser = Null
  /\ changePasswordUser = Null
  /\ LET user == FindLogin(users, email, password)
     IN  IF user = Null
           THEN /\ last' = Toast("Login:error")
                /\ UNCHANGED <<authenticatedUser, changePasswordUser, auditLogs>>
         ELSE IF user.password = "changeme"
           THEN /\ changePasswordUser' = user
                /\ last' = NoLast
                /\ UNCHANGED <<authenticatedUser, auditLogs>>
         ELSE /\ LogRoom
              /\ authenticatedUser' = user
              /\ auditLogs' = AddAuditLog(auditLogs, user, "Fez login no sistema.", <<>>)
              /\ last' = NoLast
              /\ UNCHANGED changePasswordUser
  /\ UNCHANGED <<items, entryExitHistory, currentPage, pending, users, formVars, pageVars>>
  /\ UNCHANGED exitFormVars
  /\ UNCHANGED currentUser
  /\ UNCHANGED stockPage

\* App.handleLogout: the page components are unmounted
Logout ==
  /\ authenticatedUser # Null
  /\ changePasswordUser = Null
  /\ itemToEdit = Null
  /\ itemToDelete = Null
  /\ currentUser = Null
  /\ ~isConfirmModalOpen
  /\ LogRoom
  /\ auditLogs' = AddAuditLog(auditLogs, authenticatedUser, "Fez logout do sistema.", <<>>)
  /\ authenticatedUser' = Null
  /\ currentPage' = "dashboard"
  /\ pending' = Unmounted(pending)
  /\ exitItemId' = ""
  /\ exitLoading' = FALSE
  /\ exitStatus' = "none"
  /\ entryLoading' = FALSE
  /\ entryStatus' = "none"
  /\ countedQuantities' = NoCount
  /\ filterCategory' = <<>>
  /\ selectedFile' = Null
  /\ last' = NoLast
  /\ exitSearchTerm' = <<>>
  /\ exitItemError' = FALSE
  /\ exitPreFilled' = FALSE
  /\ blurTimers' = <<>>
  /\ currentUser' = Null
  /\ stockPage' = 1
  /\ UNCHANGED <<items, entryExitHistory, itemToEdit, isConfirmModalOpen, clock,
                 itemToDelete, users, changePasswordUser>>

\* UserManagement's "Alterar Senha" button: App.onRequestChangePasswordForUser
RequestChangePassword(id) ==
  /\ renderedPage = "users"
  /\ changePasswordUser = Null
  /\ currentUser = Null
  /\ FindUser(users, id) # Null
  /\ changePasswordUser' = FindUser(users, id)
  /\ last' = NoLast
  /\ UNCHANGED <<items, entryExitHistory, currentPage, pending, users, authenticatedUser,
                 auditLogs, formVars, pageVars>>
  /\ UNCHANGED exitFormVars
  /\ UNCHANGED currentUser
  /\ UNCHANGED stockPage

\* ChangePasswordModal onClose: a forced change cannot be dismissed
ClosePasswordModal ==
  /\ changePasswordUser # Null
  /\ changePasswordUser.password # "changeme"
  /\ changePasswordUser' = Null
  /\ last' = NoLast
  /\ UNCHANGED <<items, entryExitHistory, currentPage, pending, users, authenticatedUser,
                 auditLogs, formVars, pageVars>>
  /\ UNCHANGED exitFormVars
  /\ UNCHANGED currentUser
  /\ UNCHANGED stockPage

\* the ChangePasswordModal prop allowDefaultPassword
allowDefaultPassword ==
  /\ authenticatedUser # Null
  /\ authenticatedUser.role = "Admin"
  /\ authenticatedUser.id # changePasswordUser.id

\* ChangePasswordModal.handleSave: TRUE when the password is passed on to onSave
PasswordAccepted(newPassword, confirmPassword) ==
  /\ ~(newPassword = "" \/ confirmPassword = "")
  /\ newPassword = confirmPassword
  /\ ~(newPassword = "changeme" /\ ~allowDefaultPassword)

\* the setUsers updater of App.handleUpdatePassword
WithPassword(prevUsers, userId, newPassword) ==
  [k \in 1..Len(prevUsers) |->
     IF prevUsers[k].id = userId
       THEN [prevUsers[k] EXCEPT !.password = newPassword]
       ELSE prevUsers[k]]

\* ChangePasswordModal.handleSave followed by App.handleUpdatePassword
PasswordSave(newPassword, confirmPassword) ==
  /\ changePasswordUser # Null
  /\ IF ~PasswordAccepted(newPassword, confirmPassword)
       THEN /\ last' = Toast("Password:error")
            /\ UNCHANGED sessionVars
       ELSE LET userId == changePasswordUser.id
                userToUpdate == FindUser(users, userId)
            IN  IF userToUpdate = Null
                  THEN /\ last' = NoLast
                       /\ UNCHANGED sessionVars
                  ELSE LET wasForcedChange == userToUpdate.password = "changeme"
                           own == authenticatedUser # Null /\ authenticatedUser.id = userId
                       IN  /\ authenticatedUser # Null => LogRoom
                           /\ users' = WithPassword(users, userId, newPassword)
                           /\ auditLogs' =
                                IF own
                                  THEN AddAuditLog(auditLogs, authenticatedUser,
                                                   "Alterou a propria senha.", <<>>)
                                  ELSE AddAuditLog(auditLogs, authenticatedUser,
                                                   "Alterou a senha do usuario",
                                                   <<userToUpdate.name>>)
                           /\ authenticatedUser' =
                                IF wasForcedChange
                                  THEN [userToUpdate EXCEPT !.password = newPassword]
                                ELSE IF own
                                  THEN [authenticatedUser EXCEPT !.password = newPassword]
                                ELSE authenticatedUser
                           /\ changePasswordUser' = Null
                           /\ last' = NoLast
  /\ UNCHANGED <<items, entryExitHistory, currentPage, pending, formVars, pageVars>>
  /\ UNCHANGED exitFormVars
  /\ UNCHANGED currentUser
  /\ UNCHANGED stockPage

-----------------------------------------------------------------------------
(* UserManagement *)

\* the draft UserManagement.openModal starts from for a new user
NewUserDraft ==
  [id |-> "", name |-> "", email |-> <<>>, role |-> "Operator", password |-> ""]

\* (users.length + 1).toString() for the lengths the list can have
LengthPlusOneToString(arr) == <<"1", "2", "3", "4", "5">>[Len(arr) + 1]

\* UserManagement.openModal: for a new user (id "") or for the user with this id
OpenUserModal(id) ==
  /\ renderedPage = "users"
  /\ changePasswordUser = Null
  /\ currentUser = Null
  /\ id = "" \/ FindUser(users, id) # Null
  /\ currentUser' = IF id = "" THEN NewUserDraft ELSE FindUser(users, id)
  /\ last' = NoLast
  /\ UNCHANGED <<items, entryExitHistory, currentPage, pending, formVars, sessionVars,
                 pageVars, exitFormVars>>
  /\ UNCHANGED stockPage

\* UserManagement.closeModal
CloseUserModal ==
  /\ currentUser # Null
  /\ currentUser' = Null
  /\ last' = NoLast
  /\ UNCHANGED <<items, entryExitHistory, currentPage, pending, formVars, sessionVars,
                 pageVars, exitFormVars>>
  /\ UNCHANGED stockPage

\* UserManagement.handleInputChange
UserInputChange(name, value) ==
  /\ currentUser # Null
  /\ name \in {"name", "email"}
  /\ currentUser[name] # value
  /\ currentUser' = [currentUser EXCEPT ![name] = value]
  /\ last' = NoLast
  /\ UNCHANGED <<items, entryExitHistory, currentPage, pending, formVars, sessionVars,
                 pageVars, exitFormVars>>
  /\ UNCHANGED stockPage

\* the list handleSaveUser passes to setUsers for a new user
CreatedUsers(arr, draft) ==
  Append(arr, [draft EXCEPT !.id = LengthPlusOneToString(arr), !.password = "changeme"])

\* the list handleSaveUser passes to setUsers for an edited user
EditedUsers(arr, draft) ==
  [k \in 1..Len(arr) |-> IF arr[k].id = draft.id THEN draft ELSE arr[k]]

\* UserManagement.handleSaveUser
SaveUser ==
  /\ currentUser # Null
  /\ IF currentUser.name = "" \/ currentUser.email = <<>>
       THEN /\ last' = Toast("SaveUser:rejected")
            /\ UNCHANGED <<users, currentUser>>
       ELSE IF currentUser.id # ""
         THEN /\ users' = EditedUsers(users, currentUser)
              /\ currentUser' = Null
              /\ last' = Toast("SaveUser:updated")
         ELSE /\ Len(users) < MaxUsers
              /\ users' = CreatedUsers(users, currentUser)
              /\ currentUser' = Null
              /\ last' = Toast("SaveUser:created")
  /\ UNCHANGED <<items, entryExitHistory, currentPage, pending, formVars,
                 authenticatedUser, changePasswordUser, auditLogs, pageVars, exitFormVars>>
  /\ UNCHANGED stockPage

\* the list handleDeleteUser passes to setUsers
WithoutUser(arr, userId) ==
  LET Keep(u) == u.id # userId
  IN  SelectSeq(arr, Keep)

\* UserManagement.handleDeleteUser, the confirmation accepted
DeleteUser(userId) ==
  /\ renderedPage = "users"
  /\ changePasswordUser = Null
  /\ currentUser = Null
  /\ FindUser(users, userId) # Null
  /\ users' = WithoutUser(users, userId)
  /\ last' = Toast("DeleteUser:deleted")
  /\ UNCHANGED <<items, entryExitHistory, currentPage, pending, formVars,
                 authenticatedUser, changePasswordUser, auditLogs, pageVars, exitFormVars,
                 currentUser>>
  /\ UNCHANGED stockPage

-----------------------------------------------------------------------------
(* BackupRestore *)

\* !v of JavaScript for these values
Falsy(v) == v.kind = "undefined" \/ (v.kind = "string" /\ v.value = "")

\* Array.isArray
IsArray(v) == v.kind = "array"

\* a validation that does not look at the history
ValidBackup_HistoryUnchecked(data) ==
  ~(Falsy(data.items) \/ Falsy(data.users)
      \/ ~IsArray(data.items) \/ ~IsArray(data.users))

\* the "basic validation" of handleRestoreBackup
ValidBackup(data) ==
  ~(Falsy(data.items) \/ Falsy(data.users) \/ Falsy(data.history)
      \/ ~IsArray(data.items) \/ ~IsArray(data.users) \/ ~IsArray(data.history))

\* BackupRestore.handleFileChange: only a file of type application/json is kept
SelectFile(file) ==
  /\ renderedPage = "backup"
  /\ changePasswordUser = Null
  /\ IF file.type = "application/json"
       THEN selectedFile' = file /\ last' = NoLast
       ELSE selectedFile' = Null /\ last' = Toast("Backup:notJson")
  /\ UNCHANGED <<items, entryExitHistory, currentPage, pending, formVars, sessionVars,
                 filterCategory, itemToDelete>>
  /\ UNCHANGED exitFormVars
  /\ UNCHANGED currentUser
  /\ UNCHANGED stockPage

\* BackupRestore.handleRestoreBackup with the onload of its FileReader: the
\* text is parsed and validated, then the three collections are replaced
RestoreBackup ==
  /\ renderedPage = "backup"
  /\ changePasswordUser = Null
  /\ selectedFile # Null
  /\ IF selectedFile.parses /\ ValidBackup(selectedFile.data)
       THEN /\ items' = selectedFile.data.items.value
            /\ users' = selectedFile.data.users.value
            /\ entryExitHistory' = selectedFile.data.history.value
            /\ last' = Toast("Restore:success")
       ELSE /\ last' = Toast("Restore:error")
            /\ UNCHANGED <<items, users, entryExitHistory>>
  /\ selectedFile' = Null
  /\ UNCHANGED <<currentPage, pending, formVars, authenticatedUser, changePasswordUser,
                 auditLogs, filterCategory, itemToDelete>>
  /\ UNCHANGED exitFormVars
  /\ UNCHANGED currentUser
  /\ UNCHANGED stockPage

-----------------------------------------------------------------------------

Next ==
  \/ \E c \in LedgerLogins : Login(c[1], c[2])
  \/ \E p \in LedgerPages : Navigate(p)
  \/ \E id \in ItemInputs : NewExitForItem(id)
  \/ \E id \in ItemInputs : ExitItemSelect(id)
  \/ \E term \in SearchInputs : ExitSearchChange(term)
  \/ \E q \in ExitQuantityInputs, filled \in BOOLEAN : ExitSubmit(q, filled)
  \/ \E c \in EntryCodeInputs, q \in EntryQuantityInputs, filled \in BOOLEAN :
        EntrySubmit(c, q, filled)
  \/ MovementApply
  \/ OpenCreateModal
  \/ \E id \in ItemInputs : OpenEditModal(id)
  \/ CloseEditModal
  \/ \E nv \in (IF isCreating THEN Elems(CreateInputs) ELSE EditInputs) :
        EditInputChange(nv[1], nv[2])
  \/ SaveItem
  \/ \E id \in CountItemInputs, v \in CountedInputs : HandleCountChange(id, v)
  \/ OpenConfirmModal
  \/ CloseConfirmModal
  \/ SaveInventory

Spec == Init /\ [][Next]_vars

-----------------------------------------------------------------------------
(* Steps, as seen from outside the handlers *)

\* the timer of the oldest continuation fires
ApplyStep == pending # <<>> /\ pending' = Tail(pending)

\* handleSubmit of a form has accepted a movement
SubmitStep == Len(pending') = Len(pending) + 1

\* handleSaveInventory runs
CommitStep == isConfirmModalOpen /\ last'.op = "SaveInventory"

\* handleSaveItem saves (or closeEditModal abandons) the edit of an existing item
EditCloseStep == itemToEdit # Null /\ itemToEdit.id # "" /\ itemToEdit' = Null

\* the counted text of an item, <<>> when countedQuantities has no entry for it
CountedText(counted, id) == IF id \in DOMAIN counted THEN counted[id] ELSE <<>>

\* a counted text that is not blank and reads as a number
IsCounted(text) == Trim(text) # <<>> /\ ~ParseFloat(text).nan

-----------------------------------------------------------------------------
(* Claims *)

\* C1: in every reachable state every item's stockQuantity is >= 0.
C1_StockNeverNegative ==
  \A k \in 1..Len(items) : items[k].stockQuantity >= 0

\* C2: an exit with quantity <= 0 or above the selected item's stock is
\* rejected and changes no item (so every accepted exit has 0 < quantity <=
\* stock, and submitting changes no item); an exit whose quantity equals the
\* stock it was checked against leaves the item at quantity 0 once applied.
C2_ExitValidated ==
  [][ /\ (SubmitStep /\ pending'[Len(pending')].type = "exit") =>
           LET m == pending'[Len(pending')]
           IN  /\ m.qty > 0
               /\ m.qty <= FindById(items, m.itemId).stockQuantity
               /\ items' = items
      /\ (currentPage = "new-exit" /\ exitStatus # "error" /\ exitStatus' = "error") =>
           (items' = items /\ pending' = pending)
      /\ (ApplyStep /\ Head(pending).type = "exit" /\ Head(pending).exact) =>
           FindById(items', Head(pending).itemId).stockQuantity = 0
    ]_vars

\* C3: applying a pending exit never takes an item from a quantity >= 0 to a
\* negative quantity, also when another exit for it was pending.
C3_ExitNeverBelowZero ==
  [][ (ApplyStep /\ Head(pending).type = "exit") =>
        \A k \in 1..Len(items) :
           items[k].stockQuantity >= 0 => items'[k].stockQuantity >= 0
    ]_vars

\* C4: totalValue = stockQuantity * avgUnitValue for every item, initially and
\* after every ledger mutation.
C4_TotalValueConsistent ==
  \A k \in 1..Len(items) :
     items[k].totalValue = items[k].stockQuantity * items[k].avgUnitValue

\* C4 witness: an item was created with a value, an entry was applied to item
\* 5 and item 2 was set by a count, and the identity holds for all three.
C4_Witness ==
  /\ Len(items) = 6
  /\ items[6].totalValue = -200
  /\ FindById(items, "5").stockQuantity = 50
  /\ FindById(items, "5").totalValue = 50 * 3500
  /\ FindById(items, "2").stockQuantity = 25
  /\ FindById(items, "2").totalValue = 25 * 850

\* C5: every applied entry or exit appends, in the same step, exactly one
\* record with its item, direction and quantity to the movement history.
C5_MovementRecorded ==
  [][ ApplyStep =>
        LET m == Head(pending)
            n == Len(entryExitHistory')
        IN  /\ n = Len(entryExitHistory) + 1
            /\ SubSeq(entryExitHistory', 1, n - 1) = entryExitHistory
            /\ entryExitHistory'[n].itemId = m.itemId
            /\ entryExitHistory'[n].type = m.type
            /\ entryExitHistory'[n].quantity = m.qty
    ]_vars

\* C6: closing the edit dialog of an existing item, by saving or by
\* cancelling, leaves the item's stockQuantity as the ledger had it just before.
C6_EditKeepsQuantity ==
  [][ EditCloseStep =>
        FindById(items', itemToEdit.id).stockQuantity
          = FindById(items, itemToEdit.id).stockQuantity
    ]_vars

\* C7: after a reconciliation commit every item counted with a non-blank number
\* has that number as stockQuantity and that number * avgUnitValue as totalValue.
C7_CommitSetsCounted ==
  [][ CommitStep =>
        \A k \in 1..Len(items) :
           LET text == CountedText(countedQuantities, items[k].id)
           IN  IsCounted(text) =>
                 /\ items'[k].id = items[k].id
                 /\ items'[k].stockQuantity = ParseFloat(text).v
                 /\ items'[k].totalValue = ParseFloat(text).v * items[k].avgUnitValue
    ]_vars

\* C7 witness: a commit has just run with item 2 (system quantity 450, unit
\* value 8.50) counted as 25, and the item now holds 25 and 212.50.
C7_Witness ==
  /\ last.op = "SaveInventory"
  /\ "2" \in last.counted
  /\ FindById(items, "2").stockQuantity = 25
  /\ FindById(items, "2").totalValue = 21250

\* C8: a reconciliation commit leaves every item without a counted number
\* unchanged, changes only stockQuantity and totalValue of the others, keeps
\* the list as it is otherwise, and empties countedQuantities.
C8_CommitFrame ==
  [][ CommitStep =>
        /\ Len(items') = Len(items)
        /\ \A k \in 1..Len(items) :
              /\ ~IsCounted(CountedText(countedQuantities, items[k].id)) =>
                    items'[k] = items[k]
              /\ \A f \in DOMAIN items[k] \ {"stockQuantity", "totalValue"} :
                    items'[k][f] = items[k][f]
        /\ countedQuantities' = NoCount
    ]_vars

\* C8 witness: a commit has just run with only item 2 counted with a number
\* while item 5 had a blank or non-numeric entry; item 2 changed, the map is empty.
C8_Witness ==
  /\ last.op = "SaveInventory"
  /\ last.keys = {"2", "5"}
  /\ last.counted = {"2"}
  /\ FindById(items, "2").stockQuantity # 450
  /\ countedQuantities = NoCount

\* C9: the divergence list holds exactly the items whose counted text is not
\* blank, reads as a number and differs from the system quantity, each with
\* newQuantity = that number and difference = that number - system quantity.
C9_DivergenceList ==
  /\ \A d \in itemsToUpdate :
        \E k \in 1..Len(items) :
           LET text == CountedText(countedQuantities, items[k].id)
           IN  /\ d.id = items[k].id
               /\ IsCounted(text)
               /\ ParseFloat(text).v # items[k].stockQuantity
               /\ d.newQuantity = ParseFloat(text).v
               /\ d.difference = ParseFloat(text).v - items[k].stockQuantity
  /\ \A k \in 1..Len(items) :
        LET text == CountedText(countedQuantities, items[k].id)
        IN  (IsCounted(text) /\ ParseFloat(text).v # items[k].stockQuantity) =>
              \E d \in itemsToUpdate : d.id = items[k].id
  /\ \A d1, d2 \in itemsToUpdate : d1.id = d2.id => d1 = d2

\* C9 witness: item 2 (450) is counted 25 and is the only divergence, while
\* item 5 (25) is counted with its system quantity.
C9_Witness ==
  /\ DOMAIN countedQuantities = {"2", "5"}
  /\ countedQuantities["2"] = <<"2", "5">>
  /\ countedQuantities["5"] = <<"2", "5">>
  /\ FindById(items, "5").stockQuantity = 25
  /\ FindById(items, "2").stockQuantity = 450
  /\ Cardinality(itemsToUpdate) = 1
  /\ \E d \in itemsToUpdate : d.id = "2" /\ d.newQuantity = 25 /\ d.difference = -425

\* every counted value is a number equal to its item's system quantity
AllCountedEqual ==
  /\ DOMAIN countedQuantities # {}
  /\ \A id \in DOMAIN countedQuantities :
        /\ FindById(items, id) # Null
        /\ IsCounted(countedQuantities[id])
        /\ ParseFloat(countedQuantities[id]).v = FindById(items, id).stockQuantity

\* C10: when every counted value equals its item's system quantity the
\* divergence list is empty, and a commit then changes no item.
C10_NoOpCommit ==
  /\ [](AllCountedEqual => itemsToUpdate = {})
  /\ [][ (CommitStep /\ AllCountedEqual) => items' = items ]_vars

\* C10 witness: a commit has just run on a map whose entries were all numbers
\* and none of them divergent.
C10_Witness ==
  /\ last.op = "SaveInventory"
  /\ last.keys # {}
  /\ last.counted = last.keys
  /\ last.divergent = {}

-----------------------------------------------------------------------------
(* The inventory page on its own: counting under a filter *)

NextInventory ==
  \/ \E c \in LedgerLogins : Login(c[1], c[2])
  \/ \E p \in {"dashboard", "inventory"} : Navigate(p)
  \/ \E c \in FilterCategoryInputs : SetFilterCategory(c)
  \/ \E id \in CountItemInputs, v \in CountedInputs : HandleCountChange(id, v)
  \/ OpenConfirmModal
  \/ CloseConfirmModal
  \/ SaveInventory

SpecInventory == Init /\ [][NextInventory]_vars

\* a reconciliation session is abandoned: the confirmation dialog is closed
\* without a commit, or the inventory page is left
CancelStep ==
  /\ currentPage = "inventory"
  /\ \/ isConfirmModalOpen /\ ~isConfirmModalOpen' /\ last'.op # "SaveInventory"
     \/ currentPage' # "inventory"

\* C11: cancelling a reconciliation session, while counting or with the
\* confirmation dialog open, changes no item and clears the counted map.
C11_CancelClearsSession ==
  [][ CancelStep => (items' = items /\ countedQuantities' = NoCount) ]_vars

\* C12: the summary's countedItemsCount never exceeds the number of filtered
\* items, and progress lies between 0 and 100.
C12_ProgressWithinFilter ==
  /\ summary.countedItemsCount <= Len(filteredItems)
  /\ summary.progress >= 0
  /\ summary.progress <= 100

-----------------------------------------------------------------------------
(* The catalog on its own: items are created, edited and deleted *)

NextCatalog ==
  \/ \E c \in LedgerLogins : Login(c[1], c[2])
  \/ \E p \in {"dashboard", "stock"} : Navigate(p)
  \/ OpenCreateModal
  \/ \E id \in ItemInputs : OpenEditModal(id)
  \/ CloseEditModal
  \/ \E nv \in (IF isCreating THEN CatalogInputs ELSE EditInputs) :
        EditInputChange(nv[1], nv[2])
  \/ SaveItem
  \/ \E id \in ItemInputs : OpenDeleteConfirmation(id)
  \/ CloseDeleteConfirmation
  \/ ConfirmDeleteItem

SpecCatalog == Init /\ [][NextCatalog]_vars

\* a code as the duplicate check reads it
CodeKey(code) == ToLowerCase(Trim(code))

\* handleSaveItem has just refused the draft in the dialog
CreateRejected == last.op = "SaveItem:rejected" /\ isCreating

\* C13: no two items have codes that are equal after trimming and ignoring
\* case, and while the create dialog holds a code that matches an existing
\* item's code no step changes the item list.
C13_CodesUnique ==
  /\ [](\A i, j \in 1..Len(items) :
          i # j => CodeKey(items[i].code) # CodeKey(items[j].code))
  /\ [][ (isCreating /\ \E k \in 1..Len(items) :
                          CodeKey(items[k].code) = CodeKey(itemToEdit.code))
          => items' = items ]_vars

\* C13 witness: a complete draft whose code is " sol-005 " has just been
\* refused while SOL-005 is in the list.
C13_Witness ==
  /\ CreateRejected
  /\ itemToEdit.code = <<" ", "s", "o", "l", "-", "0", "0", "5", " ">>
  /\ \A key \in {"description", "category", "location", "unit"} :
        Trim(itemToEdit[key]) # <<>>
  /\ FindById(items, "5") # Null
  /\ Len(items) = 5

-----------------------------------------------------------------------------
(* Movements and the audit log *)

C18_MovementsAudited ==
  [][ (ApplyStep \/ CommitStep) =>
        /\ Len(auditLogs') = Len(auditLogs) + 1
        /\ authenticatedUser # Null => auditLogs'[1].userId = authenticatedUser.id
    ]_vars

-----------------------------------------------------------------------------
(* The session and the administration pages on their own *)

NextSession ==
  \/ \E c \in SessionLogins : Login(c[1], c[2])
  \/ Logout
  \/ \E p \in {"dashboard", "users", "backup"} : Navigate(p)
  \/ \E u \in {"1", "2"} : RequestChangePassword(u)
  \/ ClosePasswordModal
  \/ \E new \in PasswordInputs, confirm \in PasswordInputs : PasswordSave(new, confirm)
  \/ \E file \in BackupFiles : SelectFile(file)
  \/ RestoreBackup

SpecSession == Init /\ [][NextSession]_vars

\* the onload of handleRestoreBackup's reader runs
RestoreStep ==
  /\ selectedFile # Null
  /\ last'.op \in {"Restore:success", "Restore:error"}

\* a backup that parses and has the three top-level arrays
WellFormedBackup(file) ==
  /\ file.parses
  /\ \A f \in {"items", "users", "history"} : file.data[f].kind = "array"

\* C14: a restore replaces items, users and history together by those of a
\* well-formed backup, and replaces none of them for any other file.
C14_RestoreAllOrNothing ==
  [][ RestoreStep =>
        IF WellFormedBackup(selectedFile)
          THEN /\ items' = selectedFile.data.items.value
               /\ users' = selectedFile.data.users.value
               /\ entryExitHistory' = selectedFile.data.history.value
          ELSE /\ items' = items
               /\ users' = users
               /\ entryExitHistory' = entryExitHistory
    ]_vars

\* C14 witness: the complete backup has just been restored.
C14_Witness ==
  /\ last.op = "Restore:success"
  /\ items = backupItems
  /\ users = backupUsers
  /\ entryExitHistory = <<>>

\* C15: across every step the history keeps all its records, unchanged and in
\* their order, and is at most extended.
C15_HistoryAppendOnly ==
  [][ /\ Len(entryExitHistory') >= Len(entryExitHistory)
      /\ \/ SubSeq(entryExitHistory', 1, Len(entryExitHistory)) = entryExitHistory
         \/ SubSeq(entryExitHistory', Len(entryExitHistory') - Len(entryExitHistory) + 1,
                   Len(entryExitHistory')) = entryExitHistory
    ]_vars

\* the user a step is done by: the authenticated one, or the one whose forced
\* password change is open
ActingUserId ==
  IF authenticatedUser # Null THEN authenticatedUser.id ELSE changePasswordUser.id

\* a step changes the password of a user of the list
PasswordChangeStep ==
  /\ changePasswordUser # Null
  /\ Len(users') = Len(users)
  /\ \E k \in 1..Len(users) : users'[k].password # users[k].password

\* C19: every login, logout and password change adds one audit entry that
\* carries the acting user.
C19_SessionAudited ==
  [][ /\ (authenticatedUser = Null /\ authenticatedUser' # Null) =>
           /\ Len(auditLogs') = Len(auditLogs) + 1
           /\ auditLogs'[1].userId = authenticatedUser'.id
      /\ (authenticatedUser # Null /\ authenticatedUser' = Null) =>
           /\ Len(auditLogs') = Len(auditLogs) + 1
           /\ auditLogs'[1].userId = authenticatedUser.id
      /\ PasswordChangeStep =>
           /\ Len(auditLogs') = Len(auditLogs) + 1
           /\ auditLogs'[1].userId = ActingUserId
    ]_vars

-----------------------------------------------------------------------------
(* The PAR-001 scenario: exits of 300 and 2000 and entries of 500 *)

NextScenario ==
  \/ \E c \in LedgerLogins : Login(c[1], c[2])
  \/ \E p \in {"new-exit", "new-entry"} : Navigate(p)
  \/ \E term \in ScenarioSearchInputs : ExitSearchChange(term)
  \/ ExitItemSelect("1")
  \/ \E q \in ScenarioExitQuantities : ExitSubmit(q, TRUE)
  \/ \E c \in ScenarioEntryCodes, q \in ScenarioEntryQuantities : EntrySubmit(c, q, TRUE)
  \/ MovementApply

SpecScenario == Init /\ [][NextScenario]_vars

\* PAR-001 has this quantity and this total value (in cents)
Par001At(arr, quantity, total) ==
  /\ FindById(arr, "1").stockQuantity = quantity
  /\ FindById(arr, "1").totalValue = total

\* C20: PAR-001 starts at 1500 with unit value 0.75; applying the exit of 300
\* there gives 1200 / 900.00; applying the entry of 500 there gives
\* 1700 / 1275.00; at 1700 an exit of 2000 is not accepted, and a rejection
\* there leaves the list and the pending movements as they are.
C20_Par001Scenario ==
  /\ Par001At(mockItems, 1500, 112500) /\ mockItems[1].avgUnitValue = 75
  /\ [][ /\ (pending # <<>> /\ pending' = Tail(pending) /\ Head(pending).itemId = "1"
             /\ Head(pending).type = "exit" /\ Head(pending).qty = 300
             /\ Par001At(items, 1500, 112500))
            => Par001At(items', 1200, 90000)
         /\ (pending # <<>> /\ pending' = Tail(pending) /\ Head(pending).itemId = "1"
             /\ Head(pending).type = "entry" /\ Head(pending).qty = 500
             /\ Par001At(items, 1200, 90000))
            => Par001At(items', 1700, 127500)
         /\ (exitItemId = "1" /\ Par001At(items, 1700, 127500)
             /\ Len(pending') > Len(pending))
            => pending'[Len(pending')].qty # 2000
         /\ (exitItemId = "1" /\ Par001At(items, 1700, 127500)
             /\ exitStatus # "error" /\ exitStatus' = "error")
            => (items' = items /\ pending' = pending)
       ]_vars

\* C20 witness: PAR-001 stands at 1700 / 1275.00, nothing is pending and the
\* exit form shows a rejection.
C20_Witness ==
  /\ Par001At(items, 1700, 127500)
  /\ pending = <<>>
  /\ currentPage = "new-exit"
  /\ exitItemId = "1"
  /\ exitStatus = "error"

-----------------------------------------------------------------------------
(* Deleting an item *)

\* confirmDeleteItem runs for the item of the open confirmation
DeleteStep ==
  /\ itemToDelete # Null
  /\ last'.op = "DeleteItem:deleted"

\* the place of the item with this id in the list
IndexOfId(arr, id) == CHOOSE k \in 1..Len(arr) : arr[k].id = id

\* C21: a delete removes the one item of the confirmation from the list, keeps
\* every other item as it was and in its place, and keeps the history as it was.
C21_DeleteFrame ==
  [][ DeleteStep =>
        /\ Len(items') = Len(items) - 1
        /\ \A k \in 1..Len(items') :
              items'[k] = IF k < IndexOfId(items, itemToDelete.id)
                            THEN items[k] ELSE items[k + 1]
        /\ entryExitHistory' = entryExitHistory
    ]_vars

\* C21 witness: SOL-005 has just been deleted and its records are in the history.
C21_Witness ==
  /\ last.op = "DeleteItem:deleted"
  /\ FindById(items, "5") = Null
  /\ FindById(items, "1") # Null
  /\ \E k \in 1..Len(entryExitHistory) : entryExitHistory[k].itemId = "5"

-----------------------------------------------------------------------------
(* The reconciliation session *)

\* the confirmation dialog is opened (the commit request)
CommitRequestStep == ~isConfirmModalOpen /\ isConfirmModalOpen'

\* C22: on the count page the items change only in a step that starts with the
\* confirmation dialog open and ends with it closed and the counts cleared;
\* the dialog is opened only on the count page, while the divergence list is
\* not empty, and opening it changes no item.
C22_CommitOnlyAfterRequest ==
  /\ [](isConfirmModalOpen => currentPage = "inventory")
  /\ [][ /\ items' # items =>
               /\ isConfirmModalOpen
               /\ ~isConfirmModalOpen'
               /\ countedQuantities' = NoCount
               /\ last'.op = "SaveInventory"
         /\ last'.op = "SaveInventory" => isConfirmModalOpen
         /\ CommitRequestStep =>
               /\ itemsToUpdate # {}
               /\ items' = items
       ]_vars

\* C22 witness: a commit has just changed the quantity of SOL-005.
C22_Witness ==
  /\ last.op = "SaveInventory"
  /\ ~isConfirmModalOpen
  /\ FindById(items, "5").stockQuantity # mockItems[5].stockQuantity

\* the ids of the items whose stockQuantity differs between two lists
ChangedQuantity(before, after) ==
  { id \in Ids(before) :
      FindById(after, id) = Null
        \/ FindById(after, id).stockQuantity # FindById(before, id).stockQuantity }

-----------------------------------------------------------------------------
(* The session's user *)

\* an authenticated Admin saves a new password for another user
AdminChangesOtherStep ==
  /\ authenticatedUser # Null
  /\ authenticatedUser.role = "Admin"
  /\ changePasswordUser # Null
  /\ changePasswordUser.id # authenticatedUser.id
  /\ changePasswordUser' = Null
  /\ Len(auditLogs') = Len(auditLogs) + 1

\* C24: when an authenticated Admin saves a new password for another user, the
\* authenticated user after the step is the same Admin as before it.
C24_AdminKeepsSession ==
  [][ AdminChangesOtherStep => authenticatedUser' = authenticatedUser ]_vars
\* C25: the authenticated user never has the default password.
C25_NeverDefaultPassword ==
  authenticatedUser # Null => authenticatedUser.password # "changeme"
-----------------------------------------------------------------------------
(* The exit form on its own: search, blur, selection, submit *)

NextExitForm ==
  \/ \E c \in LedgerLogins : Login(c[1], c[2])
  \/ \E p \in {"dashboard", "new-exit"} : Navigate(p)
  \/ \E term \in ExitFormSearchInputs : ExitSearchChange(term)
  \/ \E id \in ItemInputs : ExitItemSelect(id)
  \/ ExitSearchBlur
  \/ ExitBlurTimeout
  \/ \E q \in { <<"2", "5">> } : ExitSubmit(q, TRUE)
  \/ MovementApply

SpecExitForm == Init /\ [][NextExitForm]_vars

\* the callback of a blur timer runs in the mounted form
BlurTimeoutStep ==
  /\ blurTimers # <<>>
  /\ blurTimers' = Tail(blurTimers)
  /\ currentPage' = currentPage

\* C26: when the callback of a blur timer runs while an item is selected, the
\* selection stays as it is and no item error is set.
C26_BlurKeepsSelection ==
  [][ (BlurTimeoutStep /\ exitItemId # "" /\ ~exitItemError) =>
        /\ exitItemId' = exitItemId
        /\ ~exitItemError'
    ]_vars

-----------------------------------------------------------------------------
(* Deleting an item while a movement for it waits on its timer *)

NextDeletePending ==
  \/ \E c \in LedgerLogins : Login(c[1], c[2])
  \/ \E p \in {"stock", "new-entry"} : Navigate(p)
  \/ \E id \in ItemInputs : NewExitForItem(id)
  \/ \E q \in { <<"2", "5">> } : ExitSubmit(q, TRUE)
  \/ \E c \in { <<"S", "O", "L", "-", "0", "0", "5">> }, q \in { <<"2", "5">> } :
        EntrySubmit(c, q, TRUE)
  \/ MovementApply
  \/ \E id \in ItemInputs : OpenDeleteConfirmation(id)
  \/ CloseDeleteConfirmation
  \/ ConfirmDeleteItem

SpecDeletePending == Init /\ [][NextDeletePending]_vars

\* C27: applying a pending movement whose item is no longer in the list leaves
\* the list as it was.
C27_PendingAfterDelete ==
  [][ (ApplyStep /\ Head(pending).itemId \notin Ids(items)) => items' = items ]_vars

\* C27 witness: SOL-005 is deleted and a movement for it has just been applied.
C27_Witness ==
  /\ last.op = "MovementApply"
  /\ last.keys = {"5"}
  /\ "5" \notin Ids(items)
  /\ Len(items) = 4
-----------------------------------------------------------------------------
(* The user list *)

NextUsers ==
  \/ \E c \in LedgerLogins : Login(c[1], c[2])
  \/ \E p \in {"dashboard", "users"} : Navigate(p)
  \/ \E id \in {"", "2"} : OpenUserModal(id)
  \/ CloseUserModal
  \/ \E nv \in UserInputs : UserInputChange(nv[1], nv[2])
  \/ SaveUser
  \/ \E id \in {"1", "2", "3"} : DeleteUser(id)
  \/ \E id \in {"2", "3"} : RequestChangePassword(id)
  \/ ClosePasswordModal
  \/ \E new \in {"", "x"} : PasswordSave(new, new)

SpecUsers == Init /\ [][NextUsers]_vars

\* C28: the ids of the users of the list are pairwise distinct.
C28_UserIdsDistinct ==
  \A i \in 1..Len(users) : \A j \in 1..Len(users) :
     i # j => users[i].id # users[j].id

-----------------------------------------------------------------------------
(* The pages of the stock list *)

NextPaging ==
  \/ \E c \in LedgerLogins : Login(c[1], c[2])
  \/ \E p \in {"backup", "stock"} : Navigate(p)
  \/ \E file \in PagedBackupFiles : SelectFile(file)
  \/ RestoreBackup
  \/ \E c \in FilterCategoryInputs : StockSetFilterCategory(c)
  \/ \E b \in {"Primeira", "Anterior", "Proxima", "Ultima"} : StockPageButton(b)
  \/ \E id \in Elems(PagedIds) \cup ItemInputs : OpenDeleteConfirmation(id)
  \/ CloseDeleteConfirmation
  \/ ConfirmDeleteItem

SpecPaging == Init /\ [][NextPaging]_vars

\* C29: while the stock list is shown and has at least one page, its page
\* number is between 1 and the number of pages.
C29_PageWithinRange ==
  (currentPage = "stock" /\ totalPages > 0) =>
     (1 <= stockPage /\ stockPage <= totalPages)

-----------------------------------------------------------------------------
(* The admin-only pages, with the Admin and the Operator *)

AccessLogins ==
  { << <<"a", "d", "m", "i", "n", "@", "a", "l", "u", "m", "a", "s", "a", ".", "c", "o", "m">>,
       "admin" >>,
    << <<"o", "p", "@", "a", "l", "u", "m", "a", "s", "a", ".", "c", "o", "m">>, "op" >> }

NextAccess ==
  \/ \E c \in AccessLogins : Login(c[1], c[2])
  \/ Logout
  \/ \E p \in Pages : Navigate(p)
  \/ \E id \in {"", "2"} : OpenUserModal(id)
  \/ CloseUserModal
  \/ \E id \in {"2"} : DeleteUser(id)
  \/ \E id \in {"2"} : RequestChangePassword(id)
  \/ ClosePasswordModal
  \/ \E file \in BackupFiles : SelectFile(file)
  \/ RestoreBackup
  \/ \E id \in ItemInputs, v \in { <<"2", "5">>, <<"5", "0">> } : HandleCountChange(id, v)
  \/ OpenConfirmModal
  \/ CloseConfirmModal
  \/ SaveInventory

SpecAccess == Init /\ [][NextAccess]_vars

\* somebody who is not an Admin is authenticated
NotAdmin == authenticatedUser # Null /\ authenticatedUser.role # "Admin"

\* C30: while the authenticated user is not an Admin the rendered page is not
\* an admin page, and is the dashboard when an admin page is requested; in
\* such a state no handler of the users, inventory or backup page runs: the
\* user list, the user dialog, the counts, the confirmation dialog, the chosen
\* file and the items stay as they are, but for a page change clearing them.
C30_AdminPagesGuarded ==
  /\ [](NotAdmin => /\ renderedPage \notin adminPages
                    /\ currentPage \in adminPages => renderedPage = "dashboard")
  /\ [][ NotAdmin =>
           /\ users' = users
           /\ items' = items
           /\ entryExitHistory' = entryExitHistory
           /\ currentUser' = Null
           /\ changePasswordUser' = Null
           /\ countedQuantities' = NoCount
           /\ ~isConfirmModalOpen'
           /\ selectedFile' = Null
       ]_vars

\* C30 witness: the Operator has asked for the page users and sees the dashboard.
C30_Witness ==
  /\ NotAdmin
  /\ currentPage = "users"
  /\ renderedPage = "dashboard"

====
